---- MODULE Spec2Model ----
(***************************************************************************)
(* Model of function_app.py: the blob-triggered ingestion pipeline         *)
(*   blob_trigger -> process_blob_content -> handle_* ->                   *)
(*   batch_and_send_to_observe -> send_batch.                              *)
(*                                                                         *)
(* Text is a sequence of one-character strings over a small alphabet:      *)
(*   "1"  an ASCII digit                                                   *)
(*   "q"  the double quote                                                 *)
(*   "n"  LINE FEED: a line boundary, Python whitespace, JSON whitespace   *)
(*   "L"  U+2028 LINE SEPARATOR: a line boundary of str.splitlines and     *)
(*        Python whitespace, but an ordinary character inside JSON strings *)
(*   "B"  a byte that is not valid UTF-8 (0xFF)                            *)
(*   "<" "x" "/" ">"  the characters of the XML document <x/>              *)
(* Sizes are scaled: one unit of the model stands for 1 MiB of the         *)
(* program's limits, so 4 MiB and 10 MiB become 4 and 10 bytes.            *)
(***************************************************************************)
EXTENDS Integers, Sequences, FiniteSets, TLC

VARIABLES
    name,       \* myblob.name
    blob,       \* the bytes myblob.read() returns
    endpoint,   \* os.getenv("OBSERVE_HTTP_ENDPOINT")
    token,      \* os.getenv("OBSERVE_API_TOKEN")
    pc,         \* position of the invocation: start, loop, append, done, or
                \* blocked inside a requests.post call that does not return
    handler,    \* the handle_* function process_blob_content dispatched to
    formatted,  \* formatted_data: the value process_blob_content returned
    data,       \* the record stream batch_and_send_to_observe iterates
    idx,        \* index in data of the next observation of the for loop
    batch,      \* batch
    current_uncompressed_size,
    sent,       \* the batches handed to send_batch, in call order
    posts,      \* the requests.post calls made, in call order
    log,        \* the logging calls made, in call order
    gzipped_len,\* len(gzipped_data) of the latest send_batch call, 0 before any
    escaped     \* an exception left blob_trigger

vars == <<name, blob, endpoint, token, pc, handler, formatted, data, idx, batch,
          current_uncompressed_size, sent, posts, log, gzipped_len, escaped>>

----------------------------------------------------------------------------
(* Bounds of the model *)

MaxLen == 4

MaxRecords == 3

(* Program constants, scaled by 1 MiB *)

MAX_UNCOMPRESSED_SIZE == 4

MAX_COMPRESSED_SIZE == 10

----------------------------------------------------------------------------
(* Values *)

SeqsUpTo(S, n) == UNION {[1..k -> S] : k \in 0..n}

NoneStr == "None"

\* formatted_data is None or a list of records
NoneVal == [isNone |-> TRUE, list |-> <<>>]

ListVal(l) == [isNone |-> FALSE, list |-> l]

\* Python values produced by the parsers
Num(digits) == [t |-> "num", n |-> 0, v |-> digits]

Str(chars) == [t |-> "str", n |-> 0, v |-> chars]

LineRecord(i, line) == [t |-> "line", n |-> i, v |-> line]

XmlRecord == [t |-> "xml", n |-> 0, v |-> <<>>]

NullVal == [t |-> "null", n |-> 0, v |-> <<>>]

----------------------------------------------------------------------------
(* Python built-ins used by the program *)

\* str.isspace characters of the alphabet
IsSpace(c) == c \in {"n", "L"}

\* line boundaries of str.splitlines in the alphabet
IsLineBreak(c) == c \in {"n", "L"}

EndsWith(s, suf) ==
    /\ Len(s) >= Len(suf)
    /\ SubSeq(s, Len(s) - Len(suf) + 1, Len(s)) = suf

\* bytes.decode("utf-8"): raises UnicodeDecodeError on an invalid byte
DecodeOk(bytes) == \A i \in 1..Len(bytes) : bytes[i] # "B"

RECURSIVE LStrip(_)
LStrip(s) == IF s # <<>> /\ IsSpace(Head(s)) THEN LStrip(Tail(s)) ELSE s

RECURSIVE RStrip(_)
RStrip(s) ==
    IF s # <<>> /\ IsSpace(s[Len(s)]) THEN RStrip(SubSeq(s, 1, Len(s) - 1)) ELSE s

\* str.strip()
Strip(s) == RStrip(LStrip(s))

FirstBreak(s) ==
    IF \E i \in 1..Len(s) : IsLineBreak(s[i])
    THEN CHOOSE i \in 1..Len(s) :
            IsLineBreak(s[i]) /\ \A j \in 1..(i - 1) : ~IsLineBreak(s[j])
    ELSE 0

\* str.splitlines(): no empty last line after a final boundary
RECURSIVE SplitLines(_)
SplitLines(s) ==
    IF s = <<>> THEN <<>>
    ELSE LET k == FirstBreak(s)
         IN  IF k = 0 THEN <<s>>
             ELSE <<SubSeq(s, 1, k - 1)>> \o SplitLines(SubSeq(s, k + 1, Len(s)))

\* whitespace json.loads skips around a value
IsJsonSpace(c) == c = "n"

RECURSIVE JsonLTrim(_)
JsonLTrim(s) == IF s # <<>> /\ IsJsonSpace(Head(s)) THEN JsonLTrim(Tail(s)) ELSE s

RECURSIVE JsonRTrim(_)
JsonRTrim(s) ==
    IF s # <<>> /\ IsJsonSpace(s[Len(s)])
    THEN JsonRTrim(SubSeq(s, 1, Len(s) - 1)) ELSE s

\* json.loads(s): ok = FALSE stands for json.JSONDecodeError.  The grammar
\* is that of JSON restricted to the alphabet: a number is a run of digits,
\* a string is quoted and holds no quote and no control character.
JsonLoads(s) ==
    LET t == JsonRTrim(JsonLTrim(s))
        inner == SubSeq(t, 2, Len(t) - 1)
    IN  IF t # <<>> /\ \A i \in 1..Len(t) : t[i] = "1"
        THEN [ok |-> TRUE, val |-> Num(t)]
        ELSE IF /\ Len(t) >= 2
                /\ t[1] = "q"
                /\ t[Len(t)] = "q"
                /\ \A i \in 1..Len(inner) : inner[i] \notin {"q", "n"}
        THEN [ok |-> TRUE, val |-> Str(inner)]
        ELSE [ok |-> FALSE, val |-> NullVal]

\* bytes one character of a string takes in json.dumps (ensure_ascii)
DumpsCharLen(c) == IF c = "L" THEN 6 ELSE IF c = "q" THEN 2 ELSE 1

RECURSIVE DumpsStrLen(_)
DumpsStrLen(s) ==
    IF s = <<>> THEN 0 ELSE DumpsCharLen(Head(s)) + DumpsStrLen(Tail(s))

\* len(json.dumps(observation).encode("utf-8"))
SerializedSize(obs) ==
    CASE obs.t = "num"  -> Len(obs.v)
      [] obs.t = "str"  -> 2 + DumpsStrLen(obs.v)
      [] obs.t = "line" -> 30 + (IF obs.n < 10 THEN 1 ELSE 2) + 2 + DumpsStrLen(obs.v)
      [] obs.t = "xml"  -> 11
      [] OTHER          -> 4

\* xmltodict.parse on the alphabet: the one well-formed document is <x/>,
\* optionally followed by line feeds
XmlDoc == <<"<", "x", "/", ">">>

XmlParseOk(text) ==
    \E k \in 0..Len(text) : text = XmlDoc \o [i \in 1..k |-> "n"]

----------------------------------------------------------------------------
(* The format handlers.  Each returns [raised, val, log]: raised says that *)
(* an exception left the function, val is its return value and log the    *)
(* logging calls it made.                                                  *)

Return(v, l) == [raised |-> FALSE, val |-> v, log |-> l]

Raise == [raised |-> TRUE, val |-> NoneVal, log |-> <<>>]

\* faulty variant: the list is built in reverse order
RECURSIVE LoadsEach_Reversed(_)
LoadsEach_Reversed(lines) ==
    IF lines = <<>> THEN [ok |-> TRUE, list |-> <<>>]
    ELSE LET r == JsonLoads(Head(lines))
             rest == LoadsEach_Reversed(Tail(lines))
         IN  IF r.ok /\ rest.ok
             THEN [ok |-> TRUE, list |-> rest.list \o <<r.val>>]
             ELSE [ok |-> FALSE, list |-> <<>>]

\* [json.loads(line) for line in log_lines]: ok = FALSE when json.loads
\* raises on some line, and then no list is built
RECURSIVE LoadsEach(_)
LoadsEach(lines) ==
    IF lines = <<>> THEN [ok |-> TRUE, list |-> <<>>]
    ELSE LET r == JsonLoads(Head(lines))
             rest == LoadsEach(Tail(lines))
         IN  IF r.ok /\ rest.ok
             THEN [ok |-> TRUE, list |-> <<r.val>> \o rest.list]
             ELSE [ok |-> FALSE, list |-> <<>>]

\* faulty variant: a line that does not parse is skipped and the rest is returned
RECURSIVE LoadsValid(_)
LoadsValid(lines) ==
    IF lines = <<>> THEN <<>>
    ELSE (IF JsonLoads(Head(lines)).ok THEN <<JsonLoads(Head(lines)).val>> ELSE <<>>)
         \o LoadsValid(Tail(lines))

handle_ndjson_SkipBadLines(blob_content) ==
    IF ~DecodeOk(blob_content) THEN Raise
    ELSE Return(ListVal(LoadsValid(SplitLines(Strip(blob_content)))), <<>>)

handle_ndjson(blob_content) ==
    IF ~DecodeOk(blob_content) THEN Raise
    ELSE LET log_lines == SplitLines(Strip(blob_content))
             r == LoadsEach(log_lines)
         IN  IF r.ok THEN Return(ListVal(r.list), <<>>)
             ELSE Return(NoneVal, <<"error:Error parsing NDJSON content">>)

\* faulty variant: no attempt on the whole content after a line failed
handle_json_NoFallback(blob_content) ==
    IF ~DecodeOk(blob_content) THEN Raise
    ELSE LET r == LoadsEach(SplitLines(Strip(blob_content)))
         IN  IF r.ok THEN Return(ListVal(r.list), <<>>)
             ELSE Return(NoneVal, <<"error:Error parsing JSON content">>)

handle_json(blob_content) ==
    IF ~DecodeOk(blob_content) THEN Raise
    ELSE LET log_lines == SplitLines(Strip(blob_content))
             r == LoadsEach(log_lines)
             single_object == JsonLoads(blob_content)
         IN  IF r.ok THEN Return(ListVal(r.list), <<>>)
             ELSE IF single_object.ok
             THEN Return(ListVal(<<single_object.val>>), <<>>)
             ELSE Return(NoneVal, <<"error:Error parsing JSON content">>)

handle_flat_text(blob_content) ==
    IF ~DecodeOk(blob_content) THEN Raise
    ELSE LET lines == SplitLines(Strip(blob_content))
         IN  Return(ListVal([i \in 1..Len(lines) |-> LineRecord(i, lines[i])]), <<>>)

handle_xml(blob_content) ==
    IF DecodeOk(blob_content) /\ XmlParseOk(blob_content)
    THEN Return(ListVal(<<XmlRecord>>), <<>>)
    ELSE Return(NoneVal, <<"error:Error parsing XML content">>)

\* faulty variant: the suffix is compared ignoring case
LowerChar(c) == IF c = "J" THEN "j" ELSE IF c = "S" THEN "s"
                ELSE IF c = "O" THEN "o" ELSE IF c = "N" THEN "n" ELSE c

Dispatch_IgnoreCase(file_name) ==
    LET lower == [i \in 1..Len(file_name) |-> LowerChar(file_name[i])]
    IN  IF EndsWith(lower, <<".", "n", "d", "j", "s", "o", "n">>) THEN "handle_ndjson"
        ELSE IF EndsWith(lower, <<".", "j", "s", "o", "n">>) THEN "handle_json"
        ELSE IF EndsWith(lower, <<".", "t", "x", "t">>) THEN "handle_flat_text"
        ELSE IF EndsWith(lower, <<".", "x", "m", "l">>) THEN "handle_xml"
        ELSE "none"

\* the if/elif chain on file_name.endswith
Dispatch(file_name) ==
    IF EndsWith(file_name, <<".", "n", "d", "j", "s", "o", "n">>) THEN "handle_ndjson"
    ELSE IF EndsWith(file_name, <<".", "j", "s", "o", "n">>) THEN "handle_json"
    ELSE IF EndsWith(file_name, <<".", "t", "x", "t">>) THEN "handle_flat_text"
    ELSE IF EndsWith(file_name, <<".", "x", "m", "l">>) THEN "handle_xml"
    ELSE "none"

CallHandler(h, blob_content) ==
    CASE h = "handle_ndjson"    -> handle_ndjson(blob_content)
      [] h = "handle_json"      -> handle_json(blob_content)
      [] h = "handle_flat_text" -> handle_flat_text(blob_content)
      [] h = "handle_xml"       -> handle_xml(blob_content)
      [] OTHER                  -> Return(NoneVal, <<"error:Unsupported file type">>)

\* try: ... except Exception: log and return None
process_blob_content(blob_content, file_name) ==
    LET r == CallHandler(Dispatch(file_name), blob_content)
    IN  IF r.raised
        THEN Return(NoneVal, <<"error:Error processing blob content">>)
        ELSE r

\* if not formatted_data
Falsy(v) == v.isNone \/ v.list = <<>>

----------------------------------------------------------------------------
(* send_batch *)

RECURSIVE SumSizes(_)
SumSizes(b) == IF b = <<>> THEN 0 ELSE SerializedSize(Head(b)) + SumSizes(Tail(b))

\* len("\n".join(json.dumps(entry) for entry in batch).encode("utf-8"))
NdjsonLen(b) == IF b = <<>> THEN 0 ELSE SumSizes(b) + Len(b) - 1

\* len(gzip.compress(...)): not computed; a length from 1 up to that of the
\* input plus the framing, of which the smallest, the largest and the two
\* around the limit are tried
GzipLens(n) ==
    {g \in 1..(n + 1) : g \in {1, MAX_COMPRESSED_SIZE, MAX_COMPRESSED_SIZE + 1, n + 1}}

\* requests.post(endpoint, ...) returns a response or raises; without an
\* endpoint it raises before anything is sent
PostOutcomes(ep) ==
    IF ep = NoneStr
    THEN {"error:Error sending batch to Observe"}
    ELSE {"info:Observe Response 2xx",
          "info:Observe Response non-2xx",
          "error:Error sending batch to Observe"}

\* faulty variant: the compressed size is not checked
TooLarge_Never(gz) == FALSE

\* if len(gzipped_data) > MAX_COMPRESSED_SIZE
TooLarge(gz) == gz > MAX_COMPRESSED_SIZE

\* faulty variant: a batch answered with a non-2xx status is posted again
send_batch_Retry(b) ==
    /\ sent' = Append(sent, b)
    /\ \E gz \in GzipLens(NdjsonLen(b)) :
          /\ gzipped_len' = gz
          /\ IF TooLarge(gz)
             THEN /\ log' = Append(log, "error:Compressed batch exceeds limit")
                  /\ posts' = posts
             ELSE LET p == [endpoint |-> endpoint, token |-> token, body |-> b]
                  IN  \E outcome \in PostOutcomes(endpoint) :
                         /\ log' = Append(log, outcome)
                         /\ posts' = IF outcome = "info:Observe Response non-2xx"
                                     THEN posts \o <<p, p>>
                                     ELSE Append(posts, p)

send_batch(b) ==
    /\ sent' = Append(sent, b)
    /\ \E gz \in GzipLens(NdjsonLen(b)) :
          /\ gzipped_len' = gz
          /\ IF TooLarge(gz)
             THEN /\ log' = Append(log, "error:Compressed batch exceeds limit")
                  /\ posts' = posts
             ELSE /\ posts' = Append(posts, [endpoint |-> endpoint, token |-> token,
                                             body |-> b])
                  /\ \E outcome \in PostOutcomes(endpoint) :
                        log' = Append(log, outcome)

----------------------------------------------------------------------------
(* batch_and_send_to_observe *)

\* faulty variant: the record alone is compared with the ceiling
Overflows_RecordOnly(cur, size) == size > MAX_UNCOMPRESSED_SIZE

\* faulty variant: a record that fills the batch exactly closes it
Overflows_AtLeast(cur, size) == cur + size >= MAX_UNCOMPRESSED_SIZE

\* if current_uncompressed_size + size > MAX_UNCOMPRESSED_SIZE
Overflows(cur, size) == cur + size > MAX_UNCOMPRESSED_SIZE

\* the events send_batch logs for a batch that was not delivered
IsError(event) ==
    event \in {"error:Compressed batch exceeds limit",
               "error:Error sending batch to Observe"}

\* faulty variant: a failed send_batch ends the call
BatchOverflow_Abort ==
    /\ pc = "loop"
    /\ idx <= Len(data)
    /\ Overflows(current_uncompressed_size, SerializedSize(data[idx]))
    /\ send_batch(batch)
    /\ batch' = <<>>
    /\ current_uncompressed_size' = 0
    /\ pc' = IF IsError(log'[Len(log')]) THEN "done" ELSE "append"
    /\ UNCHANGED <<name, blob, endpoint, token, handler, formatted, data, idx, escaped>>

\* faulty variant: a batch whose send_batch failed is kept and sent again
\* together with the records that follow
BatchOverflow_KeepOnFailure ==
    /\ pc = "loop"
    /\ idx <= Len(data)
    /\ Overflows(current_uncompressed_size, SerializedSize(data[idx]))
    /\ send_batch(batch)
    /\ batch' = IF IsError(log'[Len(log')]) THEN batch ELSE <<>>
    /\ current_uncompressed_size' =
          IF IsError(log'[Len(log')]) THEN current_uncompressed_size ELSE 0
    /\ pc' = "append"
    /\ UNCHANGED <<name, blob, endpoint, token, handler, formatted, data, idx, escaped>>

\* faulty variant: the batch is emptied but the accumulator is not reset
BatchOverflow_NoSizeReset ==
    /\ pc = "loop"
    /\ idx <= Len(data)
    /\ Overflows(current_uncompressed_size, SerializedSize(data[idx]))
    /\ send_batch(batch)
    /\ batch' = <<>>
    /\ pc' = "append"
    /\ UNCHANGED <<name, blob, endpoint, token, handler, formatted, data, idx,
                   current_uncompressed_size, escaped>>

\* one iteration whose record overflows the batch: send_batch(batch), then
\* batch = [] and current_uncompressed_size = 0
BatchOverflow ==
    /\ pc = "loop"
    /\ idx <= Len(data)
    /\ Overflows(current_uncompressed_size, SerializedSize(data[idx]))
    /\ send_batch(batch)
    /\ batch' = <<>>
    /\ current_uncompressed_size' = 0
    /\ pc' = "append"
    /\ UNCHANGED <<name, blob, endpoint, token, handler, formatted, data, idx, escaped>>

\* batch.append(observation); current_uncompressed_size += size
BatchAppend ==
    /\ IF pc = "append" THEN TRUE
       ELSE /\ pc = "loop"
            /\ idx <= Len(data)
            /\ ~Overflows(current_uncompressed_size, SerializedSize(data[idx]))
    /\ batch' = Append(batch, data[idx])
    /\ current_uncompressed_size' = current_uncompressed_size + SerializedSize(data[idx])
    /\ idx' = idx + 1
    /\ pc' = "loop"
    /\ UNCHANGED <<name, blob, endpoint, token, handler, formatted, data, sent, posts,
                   log, gzipped_len, escaped>>

\* faulty variant: the remaining batch is not sent
BatchFinal_NoFlush ==
    /\ pc = "loop"
    /\ idx > Len(data)
    /\ pc' = "done"
    /\ UNCHANGED <<name, blob, endpoint, token, handler, formatted, data, idx, batch,
                   current_uncompressed_size, sent, posts, log, gzipped_len, escaped>>

\* after the loop: if batch: send_batch(batch)
BatchFinal ==
    /\ pc = "loop"
    /\ idx > Len(data)
    /\ IF batch # <<>> THEN send_batch(batch)
       ELSE UNCHANGED <<sent, posts, log, gzipped_len>>
    /\ pc' = "done"
    /\ UNCHANGED <<name, blob, endpoint, token, handler, formatted, data, idx, batch,
                   current_uncompressed_size, escaped>>

\* a send_batch call, from the loop or after it, whose requests.post call
\* never returns: the call is made with no timeout argument, so nothing ends
\* the wait for a collector that accepts the request and does not answer
PostBlocks ==
    /\ pc = "loop"
    /\ IF idx <= Len(data)
       THEN Overflows(current_uncompressed_size, SerializedSize(data[idx]))
       ELSE batch # <<>>
    /\ endpoint # NoneStr
    /\ \E gz \in GzipLens(NdjsonLen(batch)) :
          /\ ~TooLarge(gz)
          /\ gzipped_len' = gz
    /\ sent' = Append(sent, batch)
    /\ posts' = Append(posts, [endpoint |-> endpoint, token |-> token, body |-> batch])
    /\ pc' = "blocked"
    /\ UNCHANGED <<name, blob, endpoint, token, handler, formatted, data, idx, batch,
                   current_uncompressed_size, log, escaped>>

----------------------------------------------------------------------------
(* blob_trigger *)

\* faulty variant: the exception is not caught
ExceptException_Reraise(raised) == [escaped |-> raised, log |-> <<>>]

\* except Exception as e: logging.error(...)
ExceptException(raised) ==
    [escaped |-> FALSE,
     log |-> IF raised THEN <<"error:Error processing blob">> ELSE <<>>]

\* the invocation up to the call of batch_and_send_to_observe; myblob.read()
\* returns the bytes or raises
blob_trigger ==
    /\ pc = "start"
    /\ \E readOk \in BOOLEAN :
          LET r == process_blob_content(blob, name)
              raised == ~readOk \/ r.raised
              h == ExceptException(raised)
              info == <<"info:Python blob trigger function processed blob">>
          IN  /\ handler' = IF readOk THEN Dispatch(name) ELSE "none"
              /\ formatted' = IF raised THEN NoneVal ELSE r.val
              /\ escaped' = h.escaped
              /\ IF raised
                 THEN /\ log' = info \o (IF readOk THEN r.log ELSE <<>>) \o h.log
                      /\ pc' = "done"
                      /\ data' = <<>>
                 ELSE IF Falsy(r.val)
                 THEN /\ log' = info \o r.log \o <<"error:No valid data to send to Observe.">>
                      /\ pc' = "done"
                      /\ data' = <<>>
                 ELSE /\ log' = info \o r.log
                      /\ pc' = "loop"
                      /\ data' = r.val.list
    /\ idx' = 1
    /\ batch' = <<>>
    /\ current_uncompressed_size' = 0
    /\ UNCHANGED <<name, blob, endpoint, token, sent, posts, gzipped_len>>

----------------------------------------------------------------------------
(* Inputs *)

Alphabet == {"1", "q", "n", "L", "B"}

Blobs == SeqsUpTo(Alphabet, MaxLen) \cup {XmlDoc, XmlDoc \o <<"n">>, <<"<", "x", ">">>}

Names ==
    { <<"a", ".", "n", "d", "j", "s", "o", "n">>,
      <<"a", ".", "j", "s", "o", "n">>,
      <<"a", ".", "t", "x", "t">>,
      <<"a", ".", "x", "m", "l">>,
      <<"a", ".", "c", "s", "v">>,
      <<"a", ".", "J", "S", "O", "N">> }

Endpoints == {NoneStr, "https://collector"}

Tokens == {NoneStr, "token"}

\* records of serialized sizes 1, 2, 3, 4, 5 and 14
RecordPool ==
    { Num(<<"1">>), Num(<<"1", "1">>), Str(<<"1">>), Str(<<"1", "1">>),
      Str(<<"1", "1", "1">>), Str(<<"L", "L">>) }

----------------------------------------------------------------------------
(* Spec: one invocation of blob_trigger on any file *)

Init ==
    /\ name \in Names
    /\ blob \in Blobs
    /\ endpoint \in Endpoints
    /\ token \in Tokens
    /\ pc = "start"
    /\ handler = "none"
    /\ formatted = NoneVal
    /\ data = <<>>
    /\ idx = 1
    /\ batch = <<>>
    /\ current_uncompressed_size = 0
    /\ sent = <<>>
    /\ posts = <<>>
    /\ log = <<>>
    /\ gzipped_len = 0
    /\ escaped = FALSE

Next == blob_trigger \/ BatchOverflow \/ BatchAppend \/ BatchFinal \/ PostBlocks

Spec == Init /\ [][Next]_vars

(* SpecBatch: one call of batch_and_send_to_observe on any record stream *)

InitBatch ==
    /\ name = <<>>
    /\ blob = <<>>
    /\ endpoint \in Endpoints
    /\ token \in Tokens
    /\ pc = "loop"
    /\ handler = "none"
    /\ data \in SeqsUpTo(RecordPool, MaxRecords)
    /\ formatted = ListVal(data)
    /\ idx = 1
    /\ batch = <<>>
    /\ current_uncompressed_size = 0
    /\ sent = <<>>
    /\ posts = <<>>
    /\ log = <<>>
    /\ gzipped_len = 0
    /\ escaped = FALSE

NextBatch == BatchOverflow \/ BatchAppend \/ BatchFinal \/ PostBlocks

SpecBatch == InitBatch /\ [][NextBatch]_vars

----------------------------------------------------------------------------
(* Properties of batch_and_send_to_observe and send_batch, under SpecBatch *)

RECURSIVE Flatten(_)
Flatten(bs) == IF bs = <<>> THEN <<>> ELSE Head(bs) \o Flatten(Tail(bs))

\* C1: the batches handed to send_batch, concatenated in call order and
\* followed by the batch still being filled, are exactly the records consumed
\* so far; when the call has returned they are the whole input stream, so each
\* record is in exactly one batch and order is kept.
C1_BatchesPartitionStream ==
    /\ pc \in {"loop", "append"} => Flatten(sent) \o batch = SubSeq(data, 1, idx - 1)
    /\ pc = "done" => Flatten(sent) = data

C1_Witness ==
    /\ pc = "done"
    /\ Len(data) = 3
    /\ Len(sent) >= 2
    /\ \E i \in 1..Len(sent) : Len(sent[i]) = 2

\* C2: a batch handed to send_batch sums to at most MAX_UNCOMPRESSED_SIZE
\* unless it is a single record that is itself larger, and a record larger
\* than the ceiling shares its batch with no other record.
C2_BatchWithinCeiling ==
    \A i \in 1..Len(sent) :
        /\ \/ SumSizes(sent[i]) <= MAX_UNCOMPRESSED_SIZE
           \/ Len(sent[i]) = 1 /\ SerializedSize(sent[i][1]) > MAX_UNCOMPRESSED_SIZE
        /\ \A j \in 1..Len(sent[i]) :
              SerializedSize(sent[i][j]) > MAX_UNCOMPRESSED_SIZE => Len(sent[i]) = 1

C2_Witness ==
    /\ pc = "done"
    /\ \E i \in 1..Len(sent) :
          Len(sent[i]) = 1 /\ SerializedSize(sent[i][1]) > MAX_UNCOMPRESSED_SIZE
    /\ \E i \in 1..Len(sent) :
          Len(sent[i]) = 2 /\ SumSizes(sent[i]) = MAX_UNCOMPRESSED_SIZE

\* C3: every batch handed to send_batch holds at least one record.
C3_NoEmptyBatchSent == \A i \in 1..Len(sent) : sent[i] # <<>>

\* C4: a send_batch call whose compressed payload is longer than
\* MAX_COMPRESSED_SIZE makes no requests.post call and logs one error; a call
\* that posts has a payload of at most MAX_COMPRESSED_SIZE and posts the batch
\* it was given.
C4_TooLargeNeverPosted ==
    [][Len(sent') = Len(sent) + 1 =>
         /\ gzipped_len' > MAX_COMPRESSED_SIZE =>
               /\ posts' = posts
               /\ log' = Append(log, "error:Compressed batch exceeds limit")
         /\ posts' # posts =>
               /\ gzipped_len' <= MAX_COMPRESSED_SIZE
               /\ Len(posts') = Len(posts) + 1
               /\ posts'[Len(posts')].body = sent'[Len(sent')]]_vars

C4_Witness ==
    /\ pc = "done"
    /\ gzipped_len > MAX_COMPRESSED_SIZE
    /\ Len(sent) = 3
    /\ Len(posts) = 2
    /\ log[Len(log)] = "error:Compressed batch exceeds limit"

\* C5: when a call has returned after some batch failed (too large once
\* compressed, or requests.post raised), or got a non-2xx response, the loop
\* still ran to the end of the stream, every record was handed to send_batch
\* and every batch has its own outcome logged.
C5_FailureDoesNotStopLaterBatches ==
    (/\ pc = "done"
     /\ \E i \in 1..Len(log) :
           IsError(log[i]) \/ log[i] = "info:Observe Response non-2xx")
    => /\ idx = Len(data) + 1
       /\ Flatten(sent) = data
       /\ Len(log) = Len(sent)

C5_Witness ==
    /\ pc = "done"
    /\ Len(sent) = 3
    /\ Len(log) = 3
    /\ log[1] = "error:Error sending batch to Observe"
    /\ log[2] = "error:Compressed batch exceeds limit"
    /\ log[3] = "info:Observe Response non-2xx"
    /\ Len(posts) = 2

----------------------------------------------------------------------------
(* Properties of one invocation, under Spec *)

InLog(event) == \E i \in 1..Len(log) : log[i] = event

SupportedSuffixes ==
    { <<".", "n", "d", "j", "s", "o", "n">>, <<".", "j", "s", "o", "n">>,
      <<".", "t", "x", "t">>, <<".", "x", "m", "l">> }

Supported(file_name) == \E suf \in SupportedSuffixes : EndsWith(file_name, suf)

IsNdjsonName(file_name) == EndsWith(file_name, <<".", "n", "d", "j", "s", "o", "n">>)

IsJsonName(file_name) ==
    EndsWith(file_name, <<".", "j", "s", "o", "n">>) /\ ~IsNdjsonName(file_name)

IsXmlName(file_name) == EndsWith(file_name, <<".", "x", "m", "l">>)

\* myblob.read() returned: process_blob_content was called
ReadReturned == pc # "start" /\ ~InLog("error:Error processing blob")

\* C6: no exception leaves blob_trigger, whatever the file, the bytes, the
\* configuration and the outcome of the read and of each post; an invocation
\* that ended without records logged an error.
C6_NothingEscapes ==
    /\ ~escaped
    /\ (pc = "done" /\ formatted.isNone) =>
          \E i \in 1..Len(log) : SubSeq(log, i, i) \in
               { <<"error:Error processing blob">>,
                 <<"error:No valid data to send to Observe.">> }

C6_Witness ==
    /\ pc = "done"
    /\ InLog("error:Error processing blob")
    /\ ~escaped

\* C7: for a file name that ends in none of .ndjson, .json, .txt, .xml
\* (compared case-sensitively), no handler runs, process_blob_content logs
\* the unsupported type and returns None, and nothing is sent or posted.
C7_UnsupportedSuffix ==
    (pc = "done" /\ ~Supported(name)) =>
        /\ handler = "none"
        /\ formatted.isNone
        /\ sent = <<>>
        /\ posts = <<>>
        /\ ReadReturned => InLog("error:Unsupported file type")

C7_Witness ==
    /\ pc = "done"
    /\ name = <<"a", ".", "J", "S", "O", "N">>
    /\ blob = <<"1">>
    /\ InLog("error:Unsupported file type")
    /\ posts = <<>>

\* positions of the line boundaries of a text
Breaks(text) == {i \in 1..Len(text) : IsLineBreak(text[i])}

\* the lines of a file: the pieces between consecutive line boundaries, a
\* final boundary ending the last line rather than starting an empty one
FileLines(text) ==
    IF text = <<>> THEN <<>>
    ELSE LET body == IF IsLineBreak(text[Len(text)])
                     THEN SubSeq(text, 1, Len(text) - 1) ELSE text
             k == Cardinality(Breaks(body)) + 1
             pos(i) == IF i = 0 THEN 0
                       ELSE IF i = k THEN Len(body) + 1
                       ELSE CHOOSE p \in Breaks(body) :
                               Cardinality({b \in Breaks(body) : b <= p}) = i
         IN  [i \in 1..k |-> SubSeq(body, pos(i - 1) + 1, pos(i) - 1)]

IsNonEmpty(l) == l # <<>>

\* a non-empty line of the file that is not a JSON value
HasMalformedLine(text) ==
    \E i \in 1..Len(FileLines(text)) :
        /\ FileLines(text)[i] # <<>>
        /\ ~JsonLoads(FileLines(text)[i]).ok

\* the cases of a DecodeError or a ParseError
DecodeOrParseError ==
    \/ Supported(name) /\ ~DecodeOk(blob)
    \/ IsNdjsonName(name) /\ DecodeOk(blob) /\ HasMalformedLine(blob)
    \/ IsJsonName(name) /\ DecodeOk(blob) /\ HasMalformedLine(blob) /\ ~JsonLoads(blob).ok
    \/ IsXmlName(name) /\ DecodeOk(blob) /\ ~XmlParseOk(blob)

C10_EmptyLinesSkipped ==
    (/\ ReadReturned
     /\ IsNdjsonName(name) \/ IsJsonName(name)
     /\ DecodeOk(blob)
     /\ ~HasMalformedLine(blob))
    => LET kept == SelectSeq(FileLines(blob), IsNonEmpty)
       IN  formatted = ListVal([i \in 1..Len(kept) |-> JsonLoads(kept[i]).val])

\* the line-by-line attempt on a .json file fails: some line of the stripped
\* text is not a JSON value
LineAttemptFails(text) ==
    \E i \in 1..Len(FileLines(Strip(text))) : ~JsonLoads(FileLines(Strip(text))[i]).ok

\* C11: for a .json file whose line-by-line attempt fails, the records are the
\* single value of the whole content when that is a JSON document, with no
\* record kept from the lines, and None when it is not.
C11_JsonFallback ==
    (/\ ReadReturned
     /\ IsJsonName(name)
     /\ DecodeOk(blob)
     /\ LineAttemptFails(blob))
    => IF JsonLoads(blob).ok
       THEN formatted = ListVal(<<JsonLoads(blob).val>>)
       ELSE formatted.isNone /\ sent = <<>> /\ InLog("error:Error parsing JSON content")

C11_Witness ==
    /\ pc = "done"
    /\ IsJsonName(name)
    /\ blob = <<"q", "1", "L", "q">>
    /\ formatted = ListVal(<<Str(<<"1", "L">>)>>)
    /\ Len(sent) = 2

IsTxtName(file_name) == EndsWith(file_name, <<".", "t", "x", "t">>)

\* the text without its trailing whitespace
WithoutTrailingSpace(text) ==
    LET keep == {i \in 0..Len(text) : \A j \in (i + 1)..Len(text) : IsSpace(text[j])}
    IN  SubSeq(text, 1, CHOOSE i \in keep : \A j \in keep : i <= j)

\* C12: for a .txt file only trailing whitespace is removed, and the i-th line
\* of the file is the i-th record, numbered i: leading blank lines are kept.
C12_TxtLineNumbers ==
    (ReadReturned /\ IsTxtName(name) /\ DecodeOk(blob))
    => LET lines == FileLines(WithoutTrailingSpace(blob))
       IN  formatted = ListVal([i \in 1..Len(lines) |-> LineRecord(i, lines[i])])

\* the logging.error calls of the program
ErrorEvents ==
    { "error:No valid data to send to Observe.",
      "error:Error processing blob",
      "error:Unsupported file type",
      "error:Error processing blob content",
      "error:Error parsing NDJSON content",
      "error:Error parsing JSON content",
      "error:Error parsing XML content",
      "error:Compressed batch exceeds limit",
      "error:Error sending batch to Observe" }

\* C13: when parsing succeeds with an empty record stream the invocation
\* completes with nothing sent or posted and no error logged.
C13_EmptyStreamIsNoError ==
    (pc = "done" /\ ReadReturned /\ ~formatted.isNone /\ formatted.list = <<>>)
    => /\ sent = <<>>
       /\ posts = <<>>
       /\ \A i \in 1..Len(log) : log[i] \notin ErrorEvents

\* C14: when the endpoint or the token is absent from the configuration no
\* requests.post call is made, so no request carries an absent bearer token.
C14_MissingConfigNeverPosts ==
    (endpoint = NoneStr \/ token = NoneStr) =>
        /\ posts = <<>>
        /\ \A i \in 1..Len(posts) : posts[i].token # NoneStr

----------------------------------------------------------------------------
(* Further properties of batch_and_send_to_observe, under SpecBatch *)

\* C15: a step makes at most one requests.post call, and only as part of a
\* send_batch call, for the batch just handed over; calls already made are
\* never repeated or reordered, whatever the response or exception.
C15_OnePostPerBatchNoRetry ==
    [][/\ SubSeq(sent', 1, Len(sent)) = sent
       /\ \/ posts' = posts
          \/ /\ Len(sent') = Len(sent) + 1
             /\ posts' = Append(posts, [endpoint |-> endpoint, token |-> token,
                                        body |-> sent'[Len(sent')]])]_vars

C15_Witness ==
    /\ pc = "done"
    /\ Len(sent) = 3
    /\ Len(posts) = 3
    /\ \A i \in 1..3 : posts[i].body = sent[i]
    /\ log[1] = "info:Observe Response non-2xx"
    /\ log[2] = "error:Error sending batch to Observe"
    /\ log[3] = "info:Observe Response 2xx"

\* the batches of a record stream as a function of the stream alone: rest is
\* what remains of the stream and cur the batch being filled
RECURSIVE BatchesOf(_, _)
BatchesOf(rest, cur) ==
    IF rest = <<>> THEN (IF cur = <<>> THEN <<>> ELSE <<cur>>)
    ELSE IF SumSizes(cur) + SerializedSize(Head(rest)) > MAX_UNCOMPRESSED_SIZE
    THEN <<cur>> \o BatchesOf(Tail(rest), <<Head(rest)>>)
    ELSE BatchesOf(Tail(rest), Append(cur, Head(rest)))

\* C16: the sequence of batches handed to send_batch is a function of the
\* record stream alone: whatever the outcomes of the deliveries, a run on the
\* same stream hands over the same batches, and while it runs the batches
\* handed over so far are an initial part of them.
C16_BatchingDeterministic ==
    LET expected == BatchesOf(data, <<>>)
    IN  /\ Len(sent) <= Len(expected)
        /\ sent = SubSeq(expected, 1, Len(sent))
        /\ pc = "done" => sent = expected

C16_Witness ==
    /\ pc = "done"
    /\ Len(sent) = 3
    /\ sent = BatchesOf(data, <<>>)
    /\ log[2] = "error:Compressed batch exceeds limit"
    /\ log[3] = "error:Error sending batch to Observe"

\* C18: a batch is closed only on overflow: each batch handed over is followed
\* by a non-empty batch whose first record did not fit after it, that is, the
\* sum of the earlier batch plus the size of that record exceeds
\* MAX_UNCOMPRESSED_SIZE; so a record that brings the sum to exactly the
\* ceiling stays in the batch.  The same holds for the last batch handed over
\* and the batch being filled.
C18_ClosedOnlyOnOverflow ==
    /\ \A i \in 1..(Len(sent) - 1) :
          /\ sent[i + 1] # <<>>
          /\ SumSizes(sent[i]) + SerializedSize(sent[i + 1][1]) > MAX_UNCOMPRESSED_SIZE
    /\ (pc = "loop" /\ sent # <<>>) =>
          /\ batch # <<>>
          /\ SumSizes(sent[Len(sent)]) + SerializedSize(batch[1]) > MAX_UNCOMPRESSED_SIZE

C18_Witness ==
    /\ pc = "done"
    /\ Len(sent) = 2
    /\ Len(sent[1]) = 2
    /\ SumSizes(sent[1]) = MAX_UNCOMPRESSED_SIZE
    /\ SerializedSize(sent[2][1]) = 1

\* C19: between the steps of the loop current_uncompressed_size is the sum of
\* the serialized sizes of the records in batch; a step that hands a batch to
\* send_batch hands over batch as it is and, inside the loop, leaves batch
\* empty and the accumulator 0 before the next record is appended; outside
\* such a reset a send_batch call leaves batch as it was.
C19_AccumulatorMatchesBatch ==
    /\ [](/\ current_uncompressed_size = SumSizes(batch)
          /\ pc = "append" => batch = <<>> /\ current_uncompressed_size = 0)
    /\ [][sent' # sent =>
            /\ sent' = Append(sent, batch)
            /\ IF pc' = "append"
               THEN batch' = <<>> /\ current_uncompressed_size' = 0
               ELSE batch' = batch]_vars

C19_Witness ==
    /\ pc = "loop"
    /\ Len(sent) = 1
    /\ sent[1] # <<>>
    /\ Len(batch) = 2
    /\ current_uncompressed_size = 3

----------------------------------------------------------------------------
(* Further properties of one invocation, under Spec *)

\* C17: every invocation terminates: in each state the invocation has
\* completed or a step of it can be taken, no call waiting without bound.
C17_InvocationTerminates == pc = "done" \/ ENABLED Next

====
